---- MODULE Spec2Model ----
(***************************************************************************)
(* Block production core of the rollup: the production cycle of            *)
(* crates/block-producer/src/main.rs (produce_next_block, build_tx,        *)
(* generate_custodian_cells) running against the mem pool that the sync    *)
(* consumer of crates/mem-pool/src/sync/subscribe.rs mutates under the     *)
(* same lock.                                                              *)
(***************************************************************************)
EXTENDS Integers, Sequences, FiniteSets, TLC

VARIABLES
    mem_pool,     \* the MemPool behind the lock: [pending, mem_block, tip]
    lock,         \* holder of the pool's Mutex: "free", "producer", "consumer"
    l1,           \* base chain as the CellCollector sees it: [deposits, fee_cells]
    p_pc,         \* producer: position in produce_next_block
    p,            \* producer: locals of the running cycle
    cycles,       \* producer: number of cycles started
    c_pc,         \* consumer: position in the poll loop / handler
    c_msg,        \* consumer: message being handled
    c_ret,        \* consumer: what the last poll returned to the loop
    polls,        \* consumer: number of polls made
    bt            \* two independent runs of build_tx on the same inputs

vars == <<mem_pool, lock, l1, p_pc, p, cycles, c_pc, c_msg, c_ret, polls, bt>>

-----------------------------------------------------------------------------
(* Bounds of the model *)

MaxPolls == 2        \* polls of the consumer loop
MaxCycles == 2       \* production cycles started
MaxBlockNumber == 2  \* block numbers carried by NextMemBlock messages
MaxNonce == 2        \* nonces 1..MaxNonce of the transactions of one account
MaxDeposits == 2     \* deposit cells returned by one query
MaxWithdrawals == 2  \* withdrawal requests of one pending entry

AccountIds == {1, 2}
\* Option: None or Some(x); () is Unit
None == <<>>
Some(x) == <<"Some", x>>
Unwrap(o) == o[2]
Unit == <<"()">>

\* Result
Ok(v) == [ok |-> TRUE, val |-> v]
Err(e) == [ok |-> FALSE, err |-> e]

-----------------------------------------------------------------------------
(* Helpers on sequences *)

Range(s) == {s[i] : i \in DOMAIN s}

RECURSIVE SumSeq(_)
SumSeq(s) == IF s = <<>> THEN 0 ELSE Head(s) + SumSeq(Tail(s))

Perms(S) == {f \in [1..Cardinality(S) -> S] : \A x \in S : \E i \in DOMAIN f : f[i] = x}

\* the elements of s whose index is in keep, in order
RECURSIVE Pick(_, _, _)
Pick(s, keep, i) ==
    IF i > Len(s) THEN <<>>
    ELSE (IF i \in keep THEN <<s[i]>> ELSE <<>>) \o Pick(s, keep, i + 1)

Without(s, gone) == SelectSeq(s, LAMBDA x : x \notin gone)

-----------------------------------------------------------------------------
(* Layer-2 values *)

\* an L2Transaction; its identity (hash) is the record itself.  One of them is
\* malformed (its signature slot does not pass the pool's checks).
Txs ==
    [from_id : AccountIds, nonce : 1..MaxNonce, sig_ok : {TRUE}]
    \cup {[from_id |-> 1, nonce |-> 1, sig_ok |-> FALSE]}

\* a WithdrawalRequest
Withdrawal(a, n) == [account_id |-> a, wnonce |-> n]

EmptyEntry == [txs |-> <<>>, withdrawals |-> <<>>]

\* what a pool can hold when the node starts its cycle: withdrawal requests
\* that account 1 submitted locally before; transactions arrive through append_tx
InitEntries(a) ==
    {EmptyEntry} \cup
    (IF a = 1
     THEN {[txs |-> <<>>, withdrawals |-> [n \in 1..MaxWithdrawals |-> Withdrawal(a, n)]]}
     ELSE {})

\* body of a NextMemBlock message: (withdrawals, deposits)
MemBlockBodies ==
    {[withdrawals |-> <<>>, deposits |-> <<>>],
     [withdrawals |-> <<Withdrawal(1, 1)>>, deposits |-> <<"deposit_request">>]}

\* the sync wire messages
\* the pool of section 4.1 does not read the number a transaction comes with
NextL2Transaction == [kind : {"NextL2Transaction"}, tx : Txs, mem_block_number : {1}]
NextMemBlock == [kind : {"NextMemBlock"}, block_info : [number : 1..MaxBlockNumber],
                 body : MemBlockBodies]
Msgs == NextL2Transaction \cup NextMemBlock

GenesisTip == [hash |-> <<0, <<>>, <<>>, <<>>>>, number |-> 0]

-----------------------------------------------------------------------------
(* MemPool (crates/mem-pool/src/pool.rs), as section 4.1 of the design    *)
(* describes it.  Every operation maps a pool to [pool, ret].             *)

\* the ids pending() iterates over: the entries that exist
PendingIds(pool) == {a \in AccountIds : pool.pending[a] # EmptyEntry}

PendingTxs(pool) == UNION {Range(pool.pending[a].txs) : a \in AccountIds}
PendingWithdrawals(pool) == UNION {Range(pool.pending[a].withdrawals) : a \in AccountIds}

\* a pool that appends whatever is well formed
append_tx_duplicating(pool, tx, block_number) ==
    IF ~tx.sig_ok
    THEN [pool |-> pool, ret |-> Err("InvalidTransaction")]
    ELSE [pool |-> [pool EXCEPT !.pending[tx.from_id].txs = Append(@, tx)], ret |-> Ok(Unit)]

\* re-delivery of a transaction that is already pending changes nothing
append_tx(pool, tx, block_number) ==
    IF ~tx.sig_ok
    THEN [pool |-> pool, ret |-> Err("InvalidTransaction")]
    ELSE IF tx \in Range(pool.pending[tx.from_id].txs)
    THEN [pool |-> pool, ret |-> Ok(Unit)]
    ELSE [pool |-> [pool EXCEPT !.pending[tx.from_id].txs = Append(@, tx)], ret |-> Ok(Unit)]

\* a number that is not ahead of the pool's is stale: no-op, None.  Otherwise the
\* context is replaced and the previous tip number returned, or the store fails
\* and the pool is left as it was.
refresh_mem_block(pool, block_info, withdrawals, deposits, storage_ok) ==
    IF block_info.number <= pool.mem_block.number
    THEN [pool |-> pool, ret |-> Ok(None)]
    ELSE IF ~storage_ok
    THEN [pool |-> pool, ret |-> Err("StorageFailure")]
    ELSE [pool |-> [pool EXCEPT !.mem_block =
                        [number |-> block_info.number,
                         withdrawals |-> withdrawals,
                         deposits |-> deposits]],
          ret |-> Ok(Some(pool.tip.number))]

\* the block a hash names, as the store returns it
BlockOfHash(block_hash) ==
    [number |-> block_hash[1], txs |-> block_hash[2], withdrawals |-> block_hash[3]]

\* evicts what the block included, advances the tip, opens a new mem-block window
notify_new_tip(pool, block_hash, storage_ok) ==
    IF ~storage_ok
    THEN [pool |-> pool, ret |-> Err("StorageFailure")]
    ELSE LET block == BlockOfHash(block_hash)
         IN  [pool |->
                [pending |-> [a \in AccountIds |->
                                [txs |-> Without(pool.pending[a].txs, Range(block.txs)),
                                 withdrawals |-> Without(pool.pending[a].withdrawals,
                                                         Range(block.withdrawals))]],
                 mem_block |-> [number |-> block.number + 1,
                                withdrawals |-> <<>>, deposits |-> <<>>],
                 tip |-> [hash |-> block_hash, number |-> block.number]],
              ret |-> Ok(Unit)]

-----------------------------------------------------------------------------
(* Byte strings and the molecule encoding of gw_types::packed             *)

\* little-endian bytes of n in w byte positions
RECURSIVE LE(_, _)
LE(n, w) == IF w = 0 THEN <<>> ELSE <<n % 256>> \o LE(n \div 256, w - 1)

RECURSIVE FromLE(_)
FromLE(b) == IF b = <<>> THEN 0 ELSE Head(b) + 256 * FromLE(Tail(b))

\* Byte32 of a hash: the hash value is opaque, it occupies 32 byte positions
Byte32(h) == [i \in 1..32 |-> IF i = 1 THEN h ELSE 0]

Slice(b, from, to) == [i \in 1..(to - from) |-> b[from + i]]

\* a molecule table of three fields: total size, three offsets, the fields
TableBytes(f1, f2, f3) ==
    LET o1 == 16
        o2 == o1 + Len(f1)
        o3 == o2 + Len(f2)
    IN  LE(o3 + Len(f3), 4) \o LE(o1, 4) \o LE(o2, 4) \o LE(o3, 4) \o f1 \o f2 \o f3

\* CustodianLockArgs::as_bytes
CustodianLockArgsBytes(args) ==
    TableBytes(args.deposition_block_hash,
               LE(args.deposition_block_number, 8),
               args.deposition_lock_args)

\* reading a CustodianLockArgs back from its bytes, field by field through the offsets
CustodianLockArgsDecode(b) ==
    LET total == FromLE(Slice(b, 0, 4))
        o1 == FromLE(Slice(b, 4, 8))
        o2 == FromLE(Slice(b, 8, 12))
        o3 == FromLE(Slice(b, 12, 16))
    IN  [deposition_block_hash |-> Slice(b, o1, o2),
         deposition_block_number |-> FromLE(Slice(b, o2, o3)),
         deposition_lock_args |-> Slice(b, o3, total)]

-----------------------------------------------------------------------------
(* Base chain values *)

Deps == {"dep_a", "dep_b", "dep_c"}

CustodianScriptTypeHash == "custodian_script_type_hash"
DepositScriptTypeHash == "deposit_script_type_hash"

LockArgsSet == {<<7>>, <<1, 2>>}

\* the i-th deposit cell of a query: its lock args and its type dep vary
DepositInfo(i, args, lock_dep, type_dep) ==
    [cell |-> [out_point |-> <<"deposit", i>>,
               output |-> [capacity |-> 100 + i,
                           lock |-> [code_hash |-> DepositScriptTypeHash,
                                     hash_type |-> "Type",
                                     args |-> args],
                           type_ |-> IF type_dep = None THEN None
                                     ELSE Some(<<"sudt", Unwrap(type_dep)>>)],
               data |-> <<i>>,
               lock_dep |-> lock_dep,
               type_dep |-> type_dep],
     request |-> <<"deposition_request", i>>]

\* the lists query_deposit_cells can return: at most n cells, which share one lock script
DepositLists(n, lock_deps, type_deps) ==
    UNION {{[i \in 1..k |-> DepositInfo(i, a[i], ld, t[i])] :
                a \in [1..k -> LockArgsSet], t \in [1..k -> type_deps], ld \in lock_deps} :
           k \in 0..n}

RollupCell(type_dep, lock_dep) ==
    [out_point |-> <<"rollup", 0>>,
     output |-> [capacity |-> 1000, lock |-> "rollup_lock", type_ |-> Some("rollup_type")],
     type_dep |-> type_dep,
     lock_dep |-> lock_dep]

\* a live cell owned by the wallet
FeeCell(i, capacity) == [out_point |-> <<"fee", i>>, capacity |-> capacity]

-----------------------------------------------------------------------------
(* CellCollector and Wallet, by their contracts (section 6)               *)

query_rollup_cell(chain) == chain.rollup_cell

query_deposit_cells(chain) == chain.deposits

\* the accepted transaction spends its inputs
send_transaction(chain, tx, accepted) ==
    IF ~accepted
    THEN [chain |-> chain, ret |-> Err("SubmissionFailure")]
    ELSE LET spent == {tx.inputs[i].previous_output : i \in DOMAIN tx.inputs}
         IN  [chain |-> [chain EXCEPT
                            !.deposits = SelectSeq(@, LAMBDA d : d.cell.out_point \notin spent),
                            !.fee_cells = SelectSeq(@, LAMBDA c : c.out_point \notin spent)],
              ret |-> Ok(Unit)]

WalletLockHash == "wallet_lock_hash"

sign(message) == <<"signature", message>>

-----------------------------------------------------------------------------
(* TransactionSkeleton and fill_tx_fee, by section 4.3 of the design      *)

EmptyWitness == [lock |-> None, input_type |-> None, output_type |-> None]

\* TransactionSkeleton::default(); wallet_inputs: positions of the inputs the wallet owns
DefaultSkeleton ==
    [inputs |-> <<>>, outputs |-> <<>>, cell_deps |-> <<>>, witnesses |-> <<>>,
     wallet_inputs |-> <<>>]

\* the fee of a transaction grows with its size
TxFee(skeleton) == Len(skeleton.inputs) + Len(skeleton.outputs) + Len(skeleton.cell_deps)

\* the shortest prefix of the wallet's cells that covers the fee (0: none does)
FeePrefix(cells, fee) ==
    LET covering == {k \in 0..Len(cells) :
                        SumSeq([i \in 1..k |-> cells[i].capacity]) >= fee}
    IN  IF covering = {} THEN 0 ELSE CHOOSE k \in covering : \A j \in covering : k <= j

fill_tx_fee(skeleton, chain, lock_hash) ==
    LET fee == TxFee(skeleton)
        cells == chain.fee_cells
        k == FeePrefix(cells, fee)
        paid == SumSeq([i \in 1..k |-> cells[i].capacity])
        n == Len(skeleton.inputs)
    IN  IF k = 0
        THEN [ok |-> FALSE, err |-> "NotEnoughFee"]
        ELSE [ok |-> TRUE,
              skeleton |->
                [skeleton EXCEPT
                    !.inputs = @ \o [i \in 1..k |-> [previous_output |-> cells[i].out_point]],
                    !.wallet_inputs = @ \o [i \in 1..k |-> n + i],
                    !.outputs = IF paid > fee
                                THEN Append(@, <<[capacity |-> paid - fee,
                                                  lock |-> lock_hash,
                                                  type_ |-> None], <<>>>>)
                                ELSE @]]

\* one message per input that needs a signature, in input order
signature_messages(skeleton) ==
    [k \in 1..Len(skeleton.wallet_inputs) |->
        [input |-> skeleton.wallet_inputs[k], inputs |-> skeleton.inputs]]

\* position of input i among the wallet's inputs (0: not one of them)
SignerSlot(skeleton, i) ==
    IF \E k \in DOMAIN skeleton.wallet_inputs : skeleton.wallet_inputs[k] = i
    THEN CHOOSE k \in DOMAIN skeleton.wallet_inputs : skeleton.wallet_inputs[k] = i
    ELSE 0

seal(skeleton, signatures) ==
    IF Len(signatures) # Len(skeleton.wallet_inputs)
    THEN [ok |-> FALSE, err |-> "IncompleteTransaction"]
    ELSE [ok |-> TRUE,
          tx |-> [inputs |-> skeleton.inputs,
                  outputs |-> skeleton.outputs,
                  cell_deps |-> skeleton.cell_deps,
                  witnesses |->
                    [i \in 1..Len(skeleton.inputs) |->
                        LET w == IF i <= Len(skeleton.witnesses)
                                 THEN skeleton.witnesses[i] ELSE EmptyWitness
                            k == SignerSlot(skeleton, i)
                        IN  IF k = 0 THEN w ELSE [w EXCEPT !.lock = Some(signatures[k])]]]]

-----------------------------------------------------------------------------
(* crates/block-producer/src/main.rs                                      *)

RollupContext == [rollup_config |-> [custodian_script_type_hash |-> CustodianScriptTypeHash]]

\* every custodian lock built from the lock args of the first deposit
generate_custodian_cells_first_args(rollup_context, block, deposit_cells) ==
    [i \in 1..Len(deposit_cells) |->
        <<[deposit_cells[i].cell.output EXCEPT !.lock =
              [code_hash |-> rollup_context.rollup_config.custodian_script_type_hash,
               hash_type |-> "Type",
               args |-> CustodianLockArgsBytes(
                          [deposition_block_hash |-> Byte32(block.hash),
                           deposition_block_number |-> block.number,
                           deposition_lock_args |->
                               deposit_cells[1].cell.output.lock.args])]],
          deposit_cells[i].cell.data>>]

generate_custodian_cells(rollup_context, block, deposit_cells) ==
    LET block_hash == Byte32(block.hash)
        block_number == block.number
    IN  [i \in 1..Len(deposit_cells) |->
            LET deposit_info == deposit_cells[i]
                lock_args == [deposition_block_hash |-> block_hash,
                              deposition_block_number |-> block_number,
                              deposition_lock_args |-> deposit_info.cell.output.lock.args]
                lock_ == [code_hash |-> rollup_context.rollup_config.custodian_script_type_hash,
                          hash_type |-> "Type",
                          args |-> CustodianLockArgsBytes(lock_args)]
                cell == [deposit_info.cell.output EXCEPT !.lock = lock_]
                data == deposit_info.cell.data
            IN  <<cell, data>>]

\* the type deps of the deposits, as the HashSet collects them
DepositTypeDeps(deposit_cells) ==
    {Unwrap(deposit_cells[i].cell.type_dep) :
        i \in {j \in DOMAIN deposit_cells : deposit_cells[j].cell.type_dep # None}}

\* the lock dep of every deposit
DepositLockDeps_each(deposit_cells) ==
    [i \in 1..Len(deposit_cells) |-> deposit_cells[i].cell.lock_dep]

\* lines 107-111: the lock dep of the first deposit, if there is a deposit
DepositLockDeps(deposit_cells) ==
    IF deposit_cells # <<>> THEN <<deposit_cells[1].cell.lock_dep>> ELSE <<>>

\* the deposit cells consumed last first
DepositInputs_reversed(deposit_cells) ==
    [i \in 1..Len(deposit_cells) |->
        [previous_output |-> deposit_cells[Len(deposit_cells) + 1 - i].cell.out_point]]

\* lines 123-129: one input per deposit cell, in the order of the list
DepositInputs(deposit_cells) ==
    [i \in 1..Len(deposit_cells) |-> [previous_output |-> deposit_cells[i].cell.out_point]]

\* lines 92-140: the skeleton when fill_tx_fee is called.  dep_order is the order
\* in which the HashSet of deposit type deps is iterated.
tx_skeleton_assembled(rollup_context, rollup_cell_info, deposit_cells, block, global_state, dep_order) ==
    LET custodian_cells == generate_custodian_cells(rollup_context, block, deposit_cells)
    IN  [DefaultSkeleton EXCEPT
           !.inputs = <<[previous_output |-> rollup_cell_info.out_point]>>
                      \o DepositInputs(deposit_cells),
           !.cell_deps =
              <<Unwrap(rollup_cell_info.type_dep), rollup_cell_info.lock_dep>>
              \o DepositLockDeps(deposit_cells)
              \o dep_order,
           !.witnesses = <<[EmptyWitness EXCEPT !.output_type = Some(block)]>>,
           !.outputs = <<<<rollup_cell_info.output, global_state>>>> \o custodian_cells]

\* build_tx up to fill_tx_fee: the unsigned skeleton
build_tx_skeleton(rollup_context, chain, deposit_cells, block, global_state, dep_order) ==
    LET found == query_rollup_cell(chain)
    IN  IF found = None
        THEN [ok |-> FALSE, err |-> "can't find rollup cell"]
        ELSE IF Unwrap(found).type_dep = None
        THEN [ok |-> FALSE, err |-> "rollup type dep should exists"]
        ELSE fill_tx_fee(tx_skeleton_assembled(rollup_context, Unwrap(found), deposit_cells,
                                               block, global_state, dep_order),
                         chain, WalletLockHash)

\* the signatures pushed in front of the list
sign_and_seal_reversed(tx_skeleton) ==
    LET messages == signature_messages(tx_skeleton)
        signatures == [k \in 1..Len(messages) |-> sign(messages[Len(messages) + 1 - k])]
    IN  seal(tx_skeleton, signatures)

\* the rest of build_tx: one signature per message, then seal
sign_and_seal(tx_skeleton) ==
    LET messages == signature_messages(tx_skeleton)
        signatures == [k \in 1..Len(messages) |-> sign(messages[k])]
    IN  seal(tx_skeleton, signatures)

\* the signatures collected before fill_tx_fee is called
build_tx_sign_first(rollup_context, chain, deposit_cells, block, global_state, dep_order) ==
    LET built == build_tx_skeleton(rollup_context, chain, deposit_cells, block,
                                   global_state, dep_order)
    IN  IF built.ok
        THEN LET messages ==
                    signature_messages(
                        tx_skeleton_assembled(rollup_context, Unwrap(query_rollup_cell(chain)),
                                              deposit_cells, block, global_state, dep_order))
             IN  seal(built.skeleton, [k \in 1..Len(messages) |-> sign(messages[k])])
        ELSE built

build_tx(rollup_context, chain, deposit_cells, block, global_state, dep_order) ==
    LET built == build_tx_skeleton(rollup_context, chain, deposit_cells, block,
                                   global_state, dep_order)
    IN  IF built.ok THEN sign_and_seal(built.skeleton) ELSE built

\* the execution engine (gw_block_producer::produce_block), by its contract: it
\* includes some of the transactions and withdrawals and returns the rest unused
produce_block(param, keep_txs, keep_withdrawals, ok) ==
    IF ~ok
    THEN Err("ExecutionError")
    ELSE LET number == param.parent_block.number + 1
             txs == Pick(param.txs, keep_txs, 1)
             withdrawals == Pick(param.withdrawal_requests, keep_withdrawals, 1)
         IN  Ok([block |-> [number |-> number,
                            hash |-> <<number, txs, withdrawals, param.deposition_requests>>],
                 global_state |-> <<"global_state", number>>,
                 unused_transactions |->
                    Pick(param.txs, DOMAIN param.txs \ keep_txs, 1),
                 unused_withdrawal_requests |->
                    Pick(param.withdrawal_requests,
                         DOMAIN param.withdrawal_requests \ keep_withdrawals, 1)])

\* chain.local_state.tip(): produce_next_block never advances it
LocalStateTip == GenesisTip

\* the loop collecting the transactions of every entry
RECURSIVE SnapshotPending_every_tx(_, _, _)
SnapshotPending_every_tx(pending, ord, acc) ==
    IF ord = <<>>
    THEN acc
    ELSE LET entry == pending[Head(ord)]
             with_txs == [acc EXCEPT !.txs = @ \o entry.txs]
         IN  SnapshotPending_every_tx(pending, Tail(ord),
                IF entry.withdrawals # <<>>
                THEN [with_txs EXCEPT
                        !.withdrawal_requests = Append(@, Head(entry.withdrawals))]
                ELSE with_txs)

\* lines 164-175: the loop over pending(), the entries visited in the order ord
RECURSIVE SnapshotPending(_, _, _)
SnapshotPending(pending, ord, acc) ==
    IF ord = <<>>
    THEN acc
    ELSE LET entry == pending[Head(ord)]
         IN  SnapshotPending(pending, Tail(ord),
                IF entry.withdrawals # <<>>
                THEN [acc EXCEPT !.withdrawal_requests = Append(@, Head(entry.withdrawals))]
                ELSE [acc EXCEPT !.txs = @ \o entry.txs])

\* the locals of produce_next_block before its first statement
NoLocals ==
    [deposit_cells |-> None, txs |-> None, withdrawal_requests |-> None,
     block |-> None, global_state |-> None, block_hash |-> None,
     unused_transactions |-> None, unused_withdrawal_requests |-> None,
     tx_skeleton |-> None, tx |-> None, ret |-> Ok(Unit)]

\* the locals are dropped when produce_next_block returns ret
Returned(ret) == [NoLocals EXCEPT !.ret = ret]

-----------------------------------------------------------------------------
(* produce_next_block, one action per step between two points where the  *)
(* sync consumer can run                                                  *)

ConsumerVars == <<c_pc, c_msg, c_ret, polls>>

\* line 161, on entry of a new cycle
P_CollectDeposits ==
    /\ p_pc \in {"idle", "done", "failed"}
    /\ cycles < MaxCycles
    /\ cycles' = cycles + 1
    /\ p' = [NoLocals EXCEPT !.deposit_cells = query_deposit_cells(l1)]
    /\ p_pc' = "snapshot_lock"
    /\ UNCHANGED <<mem_pool, lock, l1, ConsumerVars, bt>>

\* line 167
P_LockSnapshot ==
    /\ p_pc = "snapshot_lock"
    /\ lock = "free"
    /\ lock' = "producer"
    /\ p_pc' = "snapshot"
    /\ UNCHANGED <<mem_pool, l1, p, cycles, ConsumerVars, bt>>

\* lines 168-175: the guard is dropped at the end of the block
P_Snapshot ==
    /\ p_pc = "snapshot"
    /\ \E ord \in Perms(PendingIds(mem_pool)) :
          LET got == SnapshotPending(mem_pool.pending, ord,
                                     [txs |-> <<>>, withdrawal_requests |-> <<>>])
          IN  p' = [p EXCEPT !.txs = got.txs,
                             !.withdrawal_requests = got.withdrawal_requests]
    /\ lock' = "free"
    /\ p_pc' = "execute"
    /\ UNCHANGED <<mem_pool, l1, cycles, ConsumerVars, bt>>

\* lines 176-204
P_ExecuteBlock ==
    /\ p_pc = "execute"
    /\ \E ok \in BOOLEAN, keep_txs \in SUBSET (DOMAIN p.txs),
          keep_withdrawals \in SUBSET (DOMAIN p.withdrawal_requests) :
          LET param == [txs |-> p.txs,
                        deposition_requests |->
                            [i \in DOMAIN p.deposit_cells |-> p.deposit_cells[i].request],
                        withdrawal_requests |-> p.withdrawal_requests,
                        parent_block |-> LocalStateTip]
              block_result == produce_block(param, keep_txs, keep_withdrawals, ok)
          IN  IF block_result.ok
              THEN /\ p' = [p EXCEPT
                              !.txs = None,
                              !.withdrawal_requests = None,
                              !.block = block_result.val.block,
                              !.global_state = block_result.val.global_state,
                              !.unused_transactions = block_result.val.unused_transactions,
                              !.unused_withdrawal_requests =
                                  block_result.val.unused_withdrawal_requests,
                              !.block_hash = block_result.val.block.hash]
                   /\ p_pc' = "build_tx"
              ELSE /\ p' = Returned(block_result)
                   /\ p_pc' = "failed"
    /\ UNCHANGED <<mem_pool, lock, l1, cycles, ConsumerVars, bt>>

\* the deposit cells queried again when the transaction is built
DepositsToBuild_requeried(locals, chain) == query_deposit_cells(chain)

\* line 212: build_tx is given the deposit cells collected at line 161
DepositsToBuild(locals, chain) == locals.deposit_cells

\* lines 207-215 with build_tx lines 89-143
P_BuildTx ==
    /\ p_pc = "build_tx"
    /\ \E dep_order \in Perms(DepositTypeDeps(DepositsToBuild(p, l1))) :
          LET built == build_tx_skeleton(RollupContext, l1, DepositsToBuild(p, l1), p.block,
                                         p.global_state, dep_order)
          IN  IF built.ok
              THEN /\ p' = [p EXCEPT !.deposit_cells = None, !.block = None,
                                     !.global_state = None,
                                     !.tx_skeleton = built.skeleton]
                   /\ p_pc' = "sign_and_seal"
              ELSE /\ p' = Returned(built)
                   /\ p_pc' = "failed"
    /\ UNCHANGED <<mem_pool, lock, l1, cycles, ConsumerVars, bt>>

\* build_tx lines 144-149
P_SignAndSeal ==
    /\ p_pc = "sign_and_seal"
    /\ LET sealed == sign_and_seal(p.tx_skeleton)
       IN  IF sealed.ok
           THEN /\ p' = [p EXCEPT !.tx_skeleton = None, !.tx = sealed.tx]
                /\ p_pc' = "send_transaction"
           ELSE /\ p' = Returned(sealed)
                /\ p_pc' = "failed"
    /\ UNCHANGED <<mem_pool, lock, l1, cycles, ConsumerVars, bt>>

\* send_transaction without the ?: the error is dropped
AfterSend_unchecked(sent) == "notify_lock"

\* where the cycle goes after send_transaction returned sent
AfterSend(sent) == IF sent.ret.ok THEN "notify_lock" ELSE "failed"

\* line 216
P_Submit ==
    /\ p_pc = "send_transaction"
    /\ \E accepted \in BOOLEAN :
          LET sent == send_transaction(l1, p.tx, accepted)
          IN  /\ l1' = sent.chain
              /\ p' = IF sent.ret.ok THEN [p EXCEPT !.tx = None] ELSE Returned(sent.ret)
              /\ p_pc' = AfterSend(sent)
    /\ UNCHANGED <<mem_pool, lock, cycles, ConsumerVars, bt>>

\* the parent's hash handed over instead of the new block's
TipToNotify_parent(locals) == LocalStateTip.hash

\* lines 204 and 219: the hash handed to notify_new_tip is the new block's
TipToNotify(locals) == locals.block_hash

\* line 219, chain.mem_pool.lock()
P_LockNotify ==
    /\ p_pc = "notify_lock"
    /\ lock = "free"
    /\ lock' = "producer"
    /\ p_pc' = "notify_new_tip"
    /\ UNCHANGED <<mem_pool, l1, p, cycles, ConsumerVars, bt>>

\* lines 219-220: notify_new_tip under the guard, dropped at the end of the statement
P_NotifyTip ==
    /\ p_pc = "notify_new_tip"
    /\ \E storage_ok \in BOOLEAN :
          LET r == notify_new_tip(mem_pool, TipToNotify(p), storage_ok)
          IN  /\ mem_pool' = r.pool
              /\ p' = Returned(r.ret)
              /\ p_pc' = IF r.ret.ok THEN "done" ELSE "failed"
    /\ lock' = "free"
    /\ UNCHANGED <<l1, cycles, ConsumerVars, bt>>

Producer ==
    \/ P_CollectDeposits
    \/ P_LockSnapshot
    \/ P_Snapshot
    \/ P_ExecuteBlock
    \/ P_BuildTx
    \/ P_SignAndSeal
    \/ P_Submit
    \/ P_LockNotify
    \/ P_NotifyTip

-----------------------------------------------------------------------------
(* crates/mem-pool/src/sync/subscribe.rs                                  *)

ProducerVars == <<p_pc, p, cycles>>

\* next_tx under the lock (lines 32-35): the error of append_tx is logged, Ok returned
next_tx(pool, next) ==
    LET tx == next.tx
        block_number == next.mem_block_number
        r == append_tx(pool, tx, block_number)
    IN  [pool |-> r.pool, ret |-> Ok(Unit)]

\* next_mem_block logging the error of refresh_mem_block the way next_tx does
next_mem_block_absorbing(pool, next, storage_ok) ==
    LET r == refresh_mem_block(pool, next.block_info, next.body.withdrawals,
                               next.body.deposits, storage_ok)
    IN  IF r.ret.ok THEN r ELSE [pool |-> r.pool, ret |-> Ok(None)]

\* next_mem_block dropping the messages it takes for stale before the pool sees them
next_mem_block_filtering(pool, next, storage_ok) ==
    IF next.block_info.number <= pool.mem_block.number + 1
    THEN [pool |-> pool, ret |-> Ok(None)]
    ELSE refresh_mem_block(pool, next.block_info, next.body.withdrawals,
                           next.body.deposits, storage_ok)

\* next_mem_block under the lock (lines 43-50): every message goes to
\* refresh_mem_block, whose result is returned as it is
next_mem_block(pool, next, storage_ok) ==
    LET block_info == next.block_info
        withdrawals == next.body.withdrawals
        deposits == next.body.deposits
    IN  refresh_mem_block(pool, block_info, withdrawals, deposits, storage_ok)

\* a loop that ends on the first error
LoopAfter_breaking(ret) == IF ret.ok THEN "poll" ELSE "stopped"

\* lines 67-71: whatever poll returned, the loop goes round again
LoopAfter(ret) == "poll"

\* lines 68-70: the loop takes what poll returned, logs an error, and polls again
C_Loop ==
    /\ c_pc = "returned"
    /\ c_pc' = LoopAfter(c_ret)
    /\ c_ret' = Ok(Unit)
    /\ c_msg' = None
    /\ UNCHANGED <<mem_pool, lock, l1, ProducerVars, polls, bt>>

\* line 68, consumer.poll(): a poll or decode error
C_PollError ==
    /\ c_pc = "poll"
    /\ polls < MaxPolls
    /\ polls' = polls + 1
    /\ c_ret' = Err("PollError")
    /\ c_pc' = "returned"
    /\ UNCHANGED <<mem_pool, lock, l1, ProducerVars, c_msg, bt>>

\* line 68, consumer.poll(): a message is delivered to its handler
C_PollMessage ==
    /\ c_pc = "poll"
    /\ polls < MaxPolls
    /\ polls' = polls + 1
    /\ \E m \in Msgs :
          /\ c_msg' = m
          /\ c_pc' = IF m.kind = "NextL2Transaction" THEN "next_tx" ELSE "next_mem_block"
    /\ UNCHANGED <<mem_pool, lock, l1, ProducerVars, c_ret, bt>>

\* next_tx going on to append_tx without the lock
N_TxLock_unlocked ==
    /\ c_pc = "next_tx"
    /\ c_pc' = "append_tx"
    /\ UNCHANGED <<mem_pool, lock, l1, ProducerVars, c_msg, c_ret, polls, bt>>

\* line 31, self.mem_pool.lock().await
N_TxLock ==
    /\ c_pc = "next_tx"
    /\ lock = "free"
    /\ lock' = "consumer"
    /\ c_pc' = "append_tx"
    /\ UNCHANGED <<mem_pool, l1, ProducerVars, c_msg, c_ret, polls, bt>>

\* next_tx keeping the guard when append_tx failed
N_TxAppend_leaking ==
    /\ c_pc = "append_tx"
    /\ LET r == next_tx(mem_pool, c_msg)
       IN  /\ mem_pool' = r.pool
           /\ c_ret' = r.ret
           /\ c_pc' = "returned"
    /\ lock' = IF c_msg.tx.sig_ok THEN "free" ELSE lock
    /\ UNCHANGED <<l1, ProducerVars, c_msg, polls, bt>>

\* lines 32-36: append_tx, then the guard is dropped as next_tx returns
N_TxAppend ==
    /\ c_pc = "append_tx"
    /\ LET r == next_tx(mem_pool, c_msg)
       IN  /\ mem_pool' = r.pool
           /\ c_ret' = r.ret
           /\ c_pc' = "returned"
    /\ lock' = "free"
    /\ UNCHANGED <<l1, ProducerVars, c_msg, polls, bt>>

\* line 47, self.mem_pool.lock().await
N_MemBlockLock ==
    /\ c_pc = "next_mem_block"
    /\ lock = "free"
    /\ lock' = "consumer"
    /\ c_pc' = "refresh_mem_block"
    /\ UNCHANGED <<mem_pool, l1, ProducerVars, c_msg, c_ret, polls, bt>>

\* lines 48-51: refresh_mem_block, then the guard is dropped as next_mem_block returns
N_MemBlockRefresh ==
    /\ c_pc = "refresh_mem_block"
    /\ \E storage_ok \in BOOLEAN :
          LET r == next_mem_block(mem_pool, c_msg, storage_ok)
          IN  /\ mem_pool' = r.pool
              /\ c_ret' = r.ret
              /\ c_pc' = "returned"
    /\ lock' = "free"
    /\ UNCHANGED <<l1, ProducerVars, c_msg, polls, bt>>

Consumer ==
    \/ C_Loop
    \/ C_PollError
    \/ C_PollMessage
    \/ N_TxLock
    \/ N_TxAppend
    \/ N_MemBlockLock
    \/ N_MemBlockRefresh

-----------------------------------------------------------------------------
(* The node: one producer, one sync consumer, one pool                    *)

\* what the collector finds on the base chain while the node runs
L1Node ==
    [rollup_cell : {None, Some(RollupCell(None, "dep_b")),
                    Some(RollupCell(Some("dep_a"), "dep_b"))},
     deposits : {<<DepositInfo(1, <<7>>, "dep_c", Some("dep_a")),
                   DepositInfo(2, <<1, 2>>, "dep_c", Some("dep_b"))>>},
     fee_cells : {<<FeeCell(1, 20)>>}]

BuildOff == [pc |-> "off"]

Init ==
    /\ mem_pool \in [pending : [AccountIds -> UNION {InitEntries(a) : a \in AccountIds}],
                     mem_block : {[number |-> 1, withdrawals |-> <<>>, deposits |-> <<>>]},
                     tip : {GenesisTip}]
    /\ \A a \in AccountIds : mem_pool.pending[a] \in InitEntries(a)
    /\ lock = "free"
    /\ l1 \in L1Node
    /\ p_pc = "idle"
    /\ p = NoLocals
    /\ cycles = 0
    /\ c_pc = "poll"
    /\ c_msg = None
    /\ c_ret = Ok(Unit)
    /\ polls = 0
    /\ bt = BuildOff

Next == Producer \/ Consumer

Spec == Init /\ [][Next]_vars

\* a follower node: it runs the sync consumer and produces no block.  The
\* runtime resumes the spawned task whenever it can take a step.
NextFollower == Consumer

FollowerSpec == Init /\ [][NextFollower]_vars /\ WF_vars(NextFollower)

-----------------------------------------------------------------------------
(* One node followed through its cycles while deposits arrive on the base *)
(* chain, and under fair scheduling                                       *)

MaxArrivals == 1

\* a user creates a deposit cell on the base chain after the block of the first
\* cycle was executed and before its transaction is assembled
L1_DepositArrives ==
    /\ p_pc = "build_tx"
    /\ cycles = 1
    /\ l1.arrivals < MaxArrivals
    /\ l1' = [l1 EXCEPT
                !.arrivals = @ + 1,
                !.deposits = Append(@, DepositInfo(MaxDeposits + l1.arrivals + 1, <<7>>,
                                                   "dep_c", None))]
    /\ UNCHANGED <<mem_pool, lock, ProducerVars, ConsumerVars, bt>>

\* a node that starts with an empty pool, on a chain with the rollup cell, two
\* deposit cells and a fee cell
InitOne ==
    /\ mem_pool = [pending |-> [a \in AccountIds |-> EmptyEntry],
                   mem_block |-> [number |-> 1, withdrawals |-> <<>>, deposits |-> <<>>],
                   tip |-> GenesisTip]
    /\ lock = "free"
    /\ l1 = [rollup_cell |-> Some(RollupCell(Some("dep_a"), "dep_b")),
             deposits |-> <<DepositInfo(1, <<7>>, "dep_c", Some("dep_a")),
                            DepositInfo(2, <<1, 2>>, "dep_c", Some("dep_b"))>>,
             fee_cells |-> <<FeeCell(1, 20)>>,
             arrivals |-> 0]
    /\ p_pc = "idle"
    /\ p = NoLocals
    /\ cycles = 0
    /\ c_pc = "poll"
    /\ c_msg = None
    /\ c_ret = Ok(Unit)
    /\ polls = 0
    /\ bt = BuildOff

NextL1 == Producer \/ Consumer \/ L1_DepositArrives

SpecL1 == InitOne /\ [][NextL1]_vars

\* the steps in which the producer takes the lock, works on the pool and releases it
ProducerOnPool == P_LockSnapshot \/ P_Snapshot \/ P_LockNotify \/ P_NotifyTip

\* the same steps of the sync consumer
ConsumerOnPool == N_TxLock \/ N_TxAppend \/ N_MemBlockLock \/ N_MemBlockRefresh

\* a stream that carries one well-formed transaction, one malformed transaction
\* and one mem block, each any number of times
StreamMsgs ==
    {m \in Msgs :
        \/ m.kind = "NextL2Transaction" /\ m.tx.from_id = 1 /\ m.tx.nonce = 1
        \/ m.kind = "NextMemBlock" /\ m.block_info.number = 2 /\ m.body.withdrawals = <<>>}

\* line 68, consumer.poll() on that stream
C_PollStream == C_PollMessage /\ c_msg' \in StreamMsgs

NextFair ==
    \/ Producer
    \/ C_Loop
    \/ C_PollError
    \/ C_PollStream
    \/ ConsumerOnPool

\* a task inside a pool operation is scheduled until it has finished it, and a
\* task that waits for the mutex gets it if it stays free
FairSpec ==
    /\ InitOne
    /\ [][NextFair]_vars
    /\ WF_vars(ProducerOnPool)
    /\ WF_vars(ConsumerOnPool)

-----------------------------------------------------------------------------
(* build_tx as a function: the same inputs given to two independent runs  *)

OptDeps == {None} \cup {Some(d) : d \in Deps}

\* the type deps of the deposit cells: none, the dep of the rollup type script
\* or the dep of the deposit lock script, or another one
DepositTypeDepChoices == {None, Some("dep_a"), Some("dep_c")}

\* what the collector can find on the base chain
L1All ==
    [rollup_cell : {None} \cup {Some(RollupCell(t, l)) : t \in OptDeps, l \in Deps},
     deposits : DepositLists(MaxDeposits, Deps, DepositTypeDepChoices),
     fee_cells : {<<>>, <<FeeCell(1, 20)>>, <<FeeCell(1, 4), FeeCell(2, 8)>>}]

\* the executed blocks handed to build_tx, with their global states
BuiltBlocks ==
    {[block |-> [number |-> 1, hash |-> <<1, <<>>, <<>>, <<>>>>], global_state |-> <<"global_state", 1>>],
     [block |-> [number |-> 258, hash |-> <<258, <<>>, <<>>, <<>>>>], global_state |-> <<"global_state", 258>>]}

\* one run of build_tx: the skeleton before and after fill_tx_fee, and the sealed
\* transaction
RunBuildTx(chain, input, dep_order) ==
    LET deposit_cells == query_deposit_cells(chain)
        built == build_tx_skeleton(RollupContext, chain, deposit_cells, input.block,
                                   input.global_state, dep_order)
    IN  [deposit_cells |-> deposit_cells,
         custodian_cells |->
            generate_custodian_cells(RollupContext, input.block, deposit_cells),
         assembled |->
            IF query_rollup_cell(chain) # None
               /\ Unwrap(query_rollup_cell(chain)).type_dep # None
            THEN Some(tx_skeleton_assembled(RollupContext, Unwrap(query_rollup_cell(chain)),
                                            deposit_cells, input.block, input.global_state,
                                            dep_order))
            ELSE None,
         unsigned |-> built,
         ret |-> build_tx(RollupContext, chain, deposit_cells, input.block,
                          input.global_state, dep_order)]

BT_First ==
    /\ bt.pc = "start"
    /\ \E dep_order \in Perms(DepositTypeDeps(query_deposit_cells(l1))) :
          bt' = [bt EXCEPT !.pc = "once", !.first = RunBuildTx(l1, bt.input, dep_order)]
    /\ UNCHANGED <<mem_pool, lock, l1, ProducerVars, ConsumerVars>>

BT_Second ==
    /\ bt.pc = "once"
    /\ \E dep_order \in Perms(DepositTypeDeps(query_deposit_cells(l1))) :
          bt' = [bt EXCEPT !.pc = "twice", !.second = RunBuildTx(l1, bt.input, dep_order)]
    /\ UNCHANGED <<mem_pool, lock, l1, ProducerVars, ConsumerVars>>

InitTx ==
    /\ mem_pool = [pending |-> [a \in AccountIds |-> EmptyEntry],
                   mem_block |-> [number |-> 1, withdrawals |-> <<>>, deposits |-> <<>>],
                   tip |-> GenesisTip]
    /\ lock = "free"
    /\ l1 \in L1All
    /\ p_pc = "idle"
    /\ p = NoLocals
    /\ cycles = 0
    /\ c_pc = "poll"
    /\ c_msg = None
    /\ c_ret = Ok(Unit)
    /\ polls = 0
    /\ bt \in [pc : {"start"}, input : BuiltBlocks, first : {None}, second : {None}]

NextTx == BT_First \/ BT_Second

SpecTx == InitTx /\ [][NextTx]_vars

-----------------------------------------------------------------------------
(* Properties of the production cycle                                     *)

\* the successive positions of one cycle, and the exits on an error
CycleOrder ==
    {<<"idle", "snapshot_lock">>, <<"done", "snapshot_lock">>, <<"failed", "snapshot_lock">>,
     <<"snapshot_lock", "snapshot">>, <<"snapshot", "execute">>, <<"execute", "build_tx">>,
     <<"build_tx", "sign_and_seal">>, <<"sign_and_seal", "send_transaction">>,
     <<"send_transaction", "notify_lock">>, <<"notify_lock", "notify_new_tip">>,
     <<"notify_new_tip", "done">>,
     <<"execute", "failed">>, <<"build_tx", "failed">>, <<"sign_and_seal", "failed">>,
     <<"send_transaction", "failed">>, <<"notify_new_tip", "failed">>}

\* the step in which notify_new_tip succeeds
NotifiedStep == p_pc = "notify_new_tip" /\ p_pc' = "done"

LiveOutPoints(chain) ==
    {chain.deposits[i].cell.out_point : i \in DOMAIN chain.deposits}
    \cup {chain.fee_cells[i].out_point : i \in DOMAIN chain.fee_cells}

C1_Step ==
    /\ p_pc' # p_pc => <<p_pc, p_pc'>> \in CycleOrder
    \* the cycle goes on to notify_new_tip only with the transaction accepted
    /\ (p_pc = "send_transaction" /\ p_pc' = "notify_lock") =>
          \A i \in DOMAIN p.tx.inputs :
              p.tx.inputs[i].previous_output \notin LiveOutPoints(l1')
    \* a failing step returns its error
    /\ (p_pc' = "failed" /\ p_pc # "failed") => ~p'.ret.ok
    \* no step of the producer but the successful notify_new_tip touches the pool
    /\ (p_pc' # p_pc /\ ~NotifiedStep) => mem_pool' = mem_pool
    \* and whoever runs meanwhile, the tip stays and nothing pending is lost
    /\ ~NotifiedStep =>
          /\ mem_pool'.tip = mem_pool.tip
          /\ PendingTxs(mem_pool) \subseteq PendingTxs(mem_pool')
          /\ PendingWithdrawals(mem_pool) \subseteq PendingWithdrawals(mem_pool')

\* C1: the steps of a cycle run in the order CollectDeposits, SnapshotMemPool,
\* ExecuteBlock, BuildTransaction, SignAndSeal, Submit, NotifyTip; notify_new_tip
\* runs only after the transaction was accepted; a failing step returns its error
\* and the failed cycle leaves the pool's tip and pending entries as they were, so
\* that the next cycle finds the same entries.
C1_FailedCycleLeavesPool == [][C1_Step]_vars

\* a cycle whose submission was rejected has returned, with entries still pending
C1_Witness ==
    /\ p_pc = "failed"
    /\ p.ret = Err("SubmissionFailure")
    /\ mem_pool.tip = GenesisTip
    /\ PendingTxs(mem_pool) # {}
    /\ PendingWithdrawals(mem_pool) # {}

C2_Step ==
    NotifiedStep =>
        LET block == BlockOfHash(p.block_hash)
        IN  /\ Range(block.txs) \cap PendingTxs(mem_pool') = {}
            /\ Range(block.withdrawals) \cap PendingWithdrawals(mem_pool') = {}
            /\ PendingTxs(mem_pool) \ Range(block.txs) \subseteq PendingTxs(mem_pool')
            /\ PendingWithdrawals(mem_pool) \ Range(block.withdrawals)
                  \subseteq PendingWithdrawals(mem_pool')
            /\ Range(p.unused_transactions) \subseteq PendingTxs(mem_pool')
            /\ Range(p.unused_withdrawal_requests) \subseteq PendingWithdrawals(mem_pool')

\* C2: when a cycle ends with notify_new_tip(block_hash), what the block included
\* is absent from pending() and everything else that was pending is still there:
\* the unused transactions and withdrawals, and what was appended after the snapshot.
C2_TipEviction == [][C2_Step]_vars

\* a cycle has ended whose block included a transaction, while another is pending
C2_Witness ==
    /\ p_pc = "done"
    /\ mem_pool.tip.hash[2] # <<>>
    /\ Range(mem_pool.tip.hash[2]) \cap PendingTxs(mem_pool) = {}
    /\ PendingTxs(mem_pool) # {}
    /\ PendingWithdrawals(mem_pool) # {}

\* C3: no task that holds the pool lock sees an entry that is in the submitted
\* block and still in pending().
C3_NoIncludedEntryPending ==
    (lock = "consumer" /\ p_pc = "notify_lock") =>
        LET block == BlockOfHash(p.block_hash)
        IN  /\ Range(block.txs) \cap PendingTxs(mem_pool) = {}
            /\ Range(block.withdrawals) \cap PendingWithdrawals(mem_pool) = {}

\* C4: every pool operation runs with the pool lock held by the task that runs
\* it, so no two of them overlap.
C4_PoolOpsUnderLock ==
    /\ c_pc \in {"append_tx", "refresh_mem_block"} => lock = "consumer"
    /\ p_pc \in {"snapshot", "notify_new_tip"} => lock = "producer"
    /\ ~(c_pc \in {"append_tx", "refresh_mem_block"} /\ p_pc \in {"snapshot", "notify_new_tip"})

\* the consumer is inside append_tx while the producer waits for the lock
C4_Witness ==
    /\ c_pc = "append_tx"
    /\ lock = "consumer"
    /\ p_pc = "notify_lock"

-----------------------------------------------------------------------------
(* Properties of the sync consumer                                        *)

\* C5: no failure of one message ends the consumer loop: after a poll or decode
\* error, after an append_tx failure and after a failed refresh the loop polls
\* again, and every message delivered afterwards reaches the pool.
C5_LoopSurvivesFailures ==
    /\ [](c_pc # "stopped")
    /\ (c_pc = "returned" /\ ~c_ret.ok) ~> (c_pc = "poll")
    /\ (c_pc \in {"next_tx", "next_mem_block"}) ~> (c_pc = "returned")
    /\ <>(polls = MaxPolls /\ c_pc = "poll")

\* poll has just returned an error to the loop
C5_Witness ==
    /\ c_pc = "returned"
    /\ ~c_ret.ok
    /\ polls < MaxPolls

\* the step in which next_mem_block applies its message and returns
RefreshStep == c_pc = "refresh_mem_block" /\ c_pc' = "returned"

C6_Common ==
    RefreshStep =>
        LET number == c_msg.block_info.number
            current == mem_pool.mem_block.number
        IN  /\ mem_pool'.mem_block.number >= current
            /\ number <= current => (mem_pool' = mem_pool /\ c_ret' = Ok(None))

\* C6 as claimed: the mem-block number never decreases over NextMemBlock
\* messages; a message that is not ahead is a no-op answered None, and a message
\* with a strictly greater number always advances the mem block.
C6_AlwaysAdvances ==
    [][/\ C6_Common
       /\ RefreshStep =>
            (c_msg.block_info.number > mem_pool.mem_block.number =>
                mem_pool'.mem_block.number = c_msg.block_info.number)]_vars

\* C6, amended: the mem-block number never decreases over NextMemBlock messages;
\* a message that is not ahead is a no-op answered None, and a message with a
\* strictly greater number advances the mem block unless refresh_mem_block fails,
\* in which case the error is returned and the pool is unchanged.  next_mem_block
\* filters nothing.
C6_AdvancesUnlessStorageFails ==
    [][/\ C6_Common
       /\ RefreshStep =>
            (c_msg.block_info.number > mem_pool.mem_block.number =>
                \/ /\ mem_pool'.mem_block.number = c_msg.block_info.number
                   /\ c_ret' = Ok(Some(mem_pool.tip.number))
                \/ /\ c_ret' = Err("StorageFailure")
                   /\ mem_pool' = mem_pool)]_vars

\* a stale NextMemBlock has been answered None by a pool that had advanced
C6_Witness ==
    /\ c_pc = "returned"
    /\ c_msg \in NextMemBlock
    /\ c_ret = Ok(None)
    /\ c_msg.block_info.number < mem_pool.mem_block.number
    /\ mem_pool.mem_block.withdrawals # <<>>

NoDuplicates(seq) == \A i, j \in DOMAIN seq : seq[i] = seq[j] => i = j

\* C7: a NextTransaction delivered again leaves the pool as the first delivery
\* left it: no entry holds a transaction twice, and the snapshot of the next
\* cycle collects it once.
C7_RedeliveryIsIdempotent ==
    [][/\ (c_pc = "append_tx" /\ c_pc' = "returned" /\ c_msg.tx \in PendingTxs(mem_pool))
            => mem_pool' = mem_pool
       /\ \A a \in AccountIds : NoDuplicates(mem_pool'.pending[a].txs)
       /\ (p_pc = "snapshot" /\ p_pc' = "execute") => NoDuplicates(p'.txs)]_vars

\* a transaction that is already pending is delivered again
C7_Witness ==
    /\ c_pc = "append_tx"
    /\ c_msg.tx \in PendingTxs(mem_pool)
    /\ polls = MaxPolls

\* C8: when refresh_mem_block fails, next_mem_block returns the error to its
\* caller and the pool (pending entries, mem-block context) is as it was before.
C8_FailedRefreshIsSurfaced ==
    [][RefreshStep =>
        /\ ~c_ret'.ok => mem_pool' = mem_pool
        /\ (/\ c_msg.block_info.number > mem_pool.mem_block.number
            /\ mem_pool'.mem_block.number # c_msg.block_info.number)
             => (c_ret' = Err("StorageFailure") /\ mem_pool' = mem_pool)]_vars

\* next_mem_block has returned a storage failure, with entries pending
C8_Witness ==
    /\ c_pc = "returned"
    /\ c_msg \in NextMemBlock
    /\ c_ret = Err("StorageFailure")
    /\ PendingTxs(mem_pool) # {}

-----------------------------------------------------------------------------
(* Properties of build_tx and generate_custodian_cells                    *)

\* C9: two independent runs of the skeleton assembly on the same rollup cell,
\* block, global state, deposits and fee cells give the same unsigned
\* transaction, cell deps in the same order.
C9_SkeletonDeterministic ==
    bt.pc = "twice" => bt.first.unsigned = bt.second.unsigned

\* C10: the custodian output of a deposit cell D for a block of hash h and number
\* n has a lock whose args decode to (h, n, D.lock.args), whose code hash is the
\* custodian script type hash and whose hash type is Type; its capacity, type
\* script and data are D's.
C10_CustodianDerivation ==
    bt.pc # "start" =>
        /\ Len(bt.first.custodian_cells) = Len(bt.first.deposit_cells)
        /\ \A i \in DOMAIN bt.first.deposit_cells :
              LET D == bt.first.deposit_cells[i].cell
                  cell == bt.first.custodian_cells[i][1]
                  data == bt.first.custodian_cells[i][2]
                  args == CustodianLockArgsDecode(cell.lock.args)
              IN  /\ args.deposition_block_hash = Byte32(bt.input.block.hash)
                  /\ args.deposition_block_number = bt.input.block.number
                  /\ args.deposition_lock_args = D.output.lock.args
                  /\ cell.lock.code_hash = CustodianScriptTypeHash
                  /\ cell.lock.hash_type = "Type"
                  /\ cell.capacity = D.output.capacity
                  /\ cell.type_ = D.output.type_
                  /\ data = D.data

\* custodian cells were derived for two deposits with different lock args, for
\* a block whose number takes more than one byte
C10_Witness ==
    /\ bt.pc = "once"
    /\ Len(bt.first.custodian_cells) = 2
    /\ bt.first.deposit_cells[1].cell.output.lock.args
          # bt.first.deposit_cells[2].cell.output.lock.args
    /\ bt.input.block.number > 255

\* C11: the cell deps of the transaction build_tx returns hold no dependency
\* twice, whatever the rollup deps, the deposit lock dep and the deposit type deps.
C11_NoDuplicateCellDeps ==
    (bt.pc # "start" /\ bt.first.ret.ok) => NoDuplicates(bt.first.ret.tx.cell_deps)

\* C12: deposits that share a lock script contribute one cell dep for that lock,
\* the first deposit's, however many they are; without deposit there is none.
C12_OneDepositLockDep ==
    (bt.pc # "start" /\ bt.first.ret.ok) =>
        LET deposit_cells == bt.first.deposit_cells
            cell_deps == bt.first.ret.tx.cell_deps
            rollup == Unwrap(l1.rollup_cell)
            type_deps == DepositTypeDeps(deposit_cells)
        IN  /\ deposit_cells = <<>> =>
                  cell_deps = <<Unwrap(rollup.type_dep), rollup.lock_dep>>
            /\ deposit_cells # <<>> =>
                  LET lock_dep == deposit_cells[1].cell.lock_dep
                  IN  /\ Len(cell_deps) = 3 + Cardinality(type_deps)
                      /\ cell_deps[3] = lock_dep
                      /\ lock_dep \notin {Unwrap(rollup.type_dep), rollup.lock_dep} \cup type_deps
                            => Cardinality({k \in DOMAIN cell_deps : cell_deps[k] = lock_dep}) = 1

\* a transaction was built from two deposits whose lock dep is no other dep
C12_Witness ==
    /\ bt.pc = "once"
    /\ bt.first.ret.ok
    /\ Len(bt.first.deposit_cells) >= 2
    /\ bt.first.deposit_cells[1].cell.lock_dep
          \notin {Unwrap(Unwrap(l1.rollup_cell).type_dep), Unwrap(l1.rollup_cell).lock_dep}
                  \cup DepositTypeDeps(bt.first.deposit_cells)

\* C13: the sealed transaction has one witness per input, at the input's
\* position: the block as output-type witness with the rollup cell, an empty
\* witness with every deposit input, its own signature with every fee input.
C13_WitnessAlignment ==
    (bt.pc # "start" /\ bt.first.ret.ok) =>
        LET tx == bt.first.ret.tx
            deposit_cells == bt.first.deposit_cells
            n == Len(deposit_cells)
        IN  /\ Len(tx.witnesses) = Len(tx.inputs)
            /\ tx.inputs[1].previous_output = Unwrap(l1.rollup_cell).out_point
            /\ tx.witnesses[1] = [EmptyWitness EXCEPT !.output_type = Some(bt.input.block)]
            /\ \A i \in 1..n :
                  /\ tx.inputs[i + 1].previous_output = deposit_cells[i].cell.out_point
                  /\ tx.witnesses[i + 1] = EmptyWitness
            /\ \A i \in (n + 2)..Len(tx.inputs) :
                  /\ tx.inputs[i].previous_output[1] = "fee"
                  /\ tx.witnesses[i] =
                        [EmptyWitness EXCEPT
                            !.lock = Some(sign([input |-> i, inputs |-> tx.inputs]))]

\* a transaction was sealed that spends two deposits and two fee cells
C13_Witness ==
    /\ bt.pc = "once"
    /\ bt.first.ret.ok
    /\ Len(bt.first.deposit_cells) = 2
    /\ Len(bt.first.ret.tx.inputs) = 5

\* C14: when fill_tx_fee is called the skeleton has the inputs rollup cell,
\* deposit 1..n and the outputs rollup output (new global state as data, lock and
\* type unchanged), custodian 1..n: one custodian output per deposit, at the
\* position of the input that consumes the deposit it is derived from.
C14_SkeletonBeforeFee ==
    (bt.pc # "start" /\ bt.first.assembled # None) =>
        LET skeleton == Unwrap(bt.first.assembled)
            deposit_cells == bt.first.deposit_cells
            rollup == Unwrap(l1.rollup_cell)
            n == Len(deposit_cells)
        IN  /\ Len(skeleton.inputs) = n + 1
            /\ Len(skeleton.outputs) = n + 1
            /\ skeleton.inputs[1].previous_output = rollup.out_point
            /\ skeleton.outputs[1] = <<rollup.output, bt.input.global_state>>
            /\ \A i \in 1..n :
                  LET consumed ==
                        CHOOSE d \in Range(deposit_cells) :
                            d.cell.out_point = skeleton.inputs[i + 1].previous_output
                      cell == skeleton.outputs[i + 1][1]
                  IN  /\ skeleton.inputs[i + 1].previous_output = deposit_cells[i].cell.out_point
                      /\ cell.capacity = consumed.cell.output.capacity
                      /\ cell.type_ = consumed.cell.output.type_
                      /\ cell.lock.code_hash = CustodianScriptTypeHash
                      /\ CustodianLockArgsDecode(cell.lock.args).deposition_lock_args
                            = consumed.cell.output.lock.args
                      /\ skeleton.outputs[i + 1][2] = consumed.cell.data

\* a skeleton was assembled from two deposits
C14_Witness ==
    /\ bt.pc = "once"
    /\ bt.first.assembled # None
    /\ Len(bt.first.deposit_cells) = 2
    /\ Len(Unwrap(bt.first.assembled).outputs) = 3

\* the capacity of the wallet's cells spent by the inputs from position from on
FeePaid(inputs, from) ==
    SumSeq([j \in 1..(Len(inputs) + 1 - from) |->
               l1.fee_cells[inputs[from + j - 1].previous_output[2]].capacity])

\* C16: fill_tx_fee runs on the skeleton that has the rollup input, the deps,
\* the block witness, the rollup output, the deposit inputs and the custodian
\* outputs, and pays for all of it; the signature messages are derived from the
\* skeleton it returns, one signature per message in the same order, and seal
\* never fails for a signature-count mismatch.
C16_FeeBeforeSignatures ==
    bt.pc # "start" =>
        /\ ~bt.first.ret.ok => bt.first.ret.err # "IncompleteTransaction"
        /\ bt.first.unsigned.ok =>
              LET before == Unwrap(bt.first.assembled)
                  after == bt.first.unsigned.skeleton
                  first_fee == Len(before.inputs) + 1
              IN  /\ SubSeq(after.inputs, 1, Len(before.inputs)) = before.inputs
                  /\ SubSeq(after.outputs, 1, Len(before.outputs)) = before.outputs
                  /\ after.cell_deps = before.cell_deps
                  /\ after.witnesses = before.witnesses
                  /\ Len(after.inputs) >= first_fee
                  /\ FeePaid(after.inputs, first_fee) >= TxFee(before)
                  /\ bt.first.ret.ok
                  /\ bt.first.ret.tx.inputs = after.inputs
                  /\ [i \in first_fee..Len(after.inputs) |-> bt.first.ret.tx.witnesses[i].lock]
                        = [i \in first_fee..Len(after.inputs) |->
                              Some(sign([input |-> i, inputs |-> after.inputs]))]

\* fee selection added two inputs to a skeleton with a deposit, and seal succeeded
C16_Witness ==
    /\ bt.pc = "once"
    /\ bt.first.ret.ok
    /\ bt.first.deposit_cells # <<>>
    /\ Len(bt.first.ret.tx.inputs) = Len(Unwrap(bt.first.assembled).inputs) + 2

-----------------------------------------------------------------------------
(* Properties of the cycle's snapshot, its deposits and the pool lock     *)

\* the step in which the producer takes its snapshot
SnapshotStep == p_pc = "snapshot" /\ p_pc' = "execute"

\* C15: the snapshot takes from every pending entry that has a withdrawal its
\* first withdrawal and nothing else, from every other entry all its
\* transactions in their stored order, and it leaves the pool as it is.
C15_SnapshotPartitions ==
    [][SnapshotStep =>
        LET txs == p'.txs
            withdrawal_requests == p'.withdrawal_requests
        IN  /\ mem_pool' = mem_pool
            /\ \A a \in AccountIds :
                  LET entry == mem_pool.pending[a]
                      txs_of == SelectSeq(txs, LAMBDA tx : tx.from_id = a)
                      withdrawals_of ==
                          SelectSeq(withdrawal_requests, LAMBDA w : w.account_id = a)
                  IN  IF entry.withdrawals # <<>>
                      THEN /\ withdrawals_of = <<Head(entry.withdrawals)>>
                           /\ txs_of = <<>>
                      ELSE /\ withdrawals_of = <<>>
                           /\ txs_of = entry.txs]_vars

\* a snapshot has taken the transaction of account 2 and the first withdrawal of
\* account 1, whose entry also holds a transaction
C15_Witness ==
    /\ p_pc = "execute"
    /\ p.txs # <<>>
    /\ \A i \in DOMAIN p.txs : p.txs[i].from_id = 2
    /\ p.withdrawal_requests = <<Withdrawal(1, 1)>>
    /\ mem_pool.pending[1].txs # <<>>
    /\ Len(mem_pool.pending[1].withdrawals) >= 2

\* C17: the deposits handed to the execution engine as deposition requests are
\* the deposits the built transaction consumes and turns into custodian outputs,
\* the same ones in the same order, whatever arrives on the base chain or in the
\* pool while the cycle runs.
C17_SameDeposits ==
    p_pc = "send_transaction" =>
        LET deposition_requests == p.block_hash[4]
            n == Len(deposition_requests)
            tx == p.tx
        IN  /\ {i \in DOMAIN tx.inputs : tx.inputs[i].previous_output[1] = "deposit"}
                  = {i + 1 : i \in 1..n}
            /\ \A i \in 1..n :
                  LET id == deposition_requests[i][2]
                  IN  /\ tx.inputs[i + 1].previous_output = <<"deposit", id>>
                      /\ tx.outputs[i + 1][1].capacity = 100 + id
                      /\ tx.outputs[i + 1][1].lock.code_hash = CustodianScriptTypeHash
                      /\ tx.outputs[i + 1][2] = <<id>>

\* a transaction is ready that consumes the two deposits the block was executed
\* with, while a third deposit cell has arrived on the base chain
C17_Witness ==
    /\ p_pc = "send_transaction"
    /\ Len(p.block_hash[4]) = 2
    /\ Len(l1.deposits) = 3

\* C18: the lock is held only inside a pool operation, so it is released at the
\* end of each of them, on success and on error, and the producer does not hold
\* it while it executes, builds or submits; whoever holds it can go on; and a
\* task that waits for the lock gets it.
C18_LockReleasedAndAcquired ==
    /\ [](lock = "producer" <=> p_pc \in {"snapshot", "notify_new_tip"})
    /\ [](lock = "consumer" <=> c_pc \in {"append_tx", "refresh_mem_block"})
    /\ [](lock = "producer" => ENABLED Producer)
    /\ [](lock = "consumer" => ENABLED Consumer)
    /\ (p_pc = "snapshot_lock") ~> (p_pc = "snapshot")
    /\ (p_pc = "notify_lock") ~> (p_pc = "notify_new_tip")
    /\ (c_pc = "next_tx") ~> (c_pc = "append_tx")
    /\ (c_pc = "next_mem_block") ~> (c_pc = "refresh_mem_block")

\* the producer waits for the lock that the consumer holds over a failing append_tx
C18_Witness ==
    /\ p_pc = "notify_lock"
    /\ lock = "consumer"
    /\ c_pc = "append_tx"
    /\ ~c_msg.tx.sig_ok

====
